---- MODULE Spec2Model ----
(***************************************************************************)
(* ligo.skymap: the adaptive convergence controller ez_emcee               *)
(* (src/ligo/skymap/bayestar/ez_emcee.py) and its hard box prior logp.     *)
(*                                                                         *)
(* One run of ez_emcee is a state machine over the controller's locals     *)
(* (nsteps, acl, pos), the progress reporter (total, n, desc) and the      *)
(* ensemble sampler it drives (time, chain).  The sampler class lives in   *)
(* bayestar/ptemcee.py, which is not part of the sources at hand: its      *)
(* operations follow the interface section of the specification.           *)
(*                                                                         *)
(* Floating point values that can be non-finite (acl, progress.total, the  *)
(* value of logp) are records [k, v]: k is "fin", "nan", "inf" or "ninf"   *)
(* and v the integer value of a finite one.  A raw autocorrelation         *)
(* estimate is a rational v / RawDen.  Coordinates are integers.           *)
(***************************************************************************)
EXTENDS Integers, Sequences, FiniteSets

VARIABLES
    pc,        \* INIT, BURNIN, SAMPLING, CHECKING, DONE, ERROR; PRIOR, PRIORDONE; TWO; PAIR
    nindep,    \* argument
    nburnin,   \* argument
    ntemps,    \* argument
    nwalkers,  \* argument: <<>> is None, <<k>> is k; after line 95 always <<k>>
    lo,        \* argument
    hi,        \* argument
    ndim,      \* len(lo), line 92
    nsteps,    \* size of the next sampling round
    total,     \* progress.total
    n,         \* progress.n: ticks reported so far
    desc,      \* progress description
    pos,       \* ensemble position pos[temperature][walker] = coordinate row
    gen,       \* the ensemble inside the running sampler.sample(...) generator
    time,      \* sampler.time: iterations since the last reset
    hist,      \* sampler.chain along the iteration axis: the tick that stored each entry
    stored,    \* the coordinate rows held by the coldest-temperature chain
    it,        \* iterations yielded so far by the running sampler.sample(...)
    acl,       \* autocorrelation length
    rawacl,    \* the last value of sampler.get_autocorr_time()[0].max()
    nacl,      \* number of autocorrelation computations so far
    ret,       \* the returned array: its rows, and its number of columns
    px,        \* logp's argument x (a batch of rows), when logp is run on its own
    pout,      \* logp's value on px
    runs,      \* the runs of a model of two runs side by side (else empty)
    rng,       \* the state of the global random source np.random
    cli        \* an argparse action of tool/__init__.py and the namespace it fills

\* what only the models of two runs and of the command line change
aux == <<runs, rng, cli>>

vars == <<pc, nindep, nburnin, ntemps, nwalkers, lo, hi, ndim, nsteps, total, n,
          desc, pos, gen, time, hist, stored, it, acl, rawacl, nacl, ret, px, pout, aux>>

----------------------------------------------------------------------------
(* Bounds of the model. *)

MaxRounds == 3      \* sampling rounds explored per run
MaxBurnin == 2      \* largest nburnin
MaxCoord == 2       \* coordinates range over -1 .. MaxCoord
RawDen == 2         \* raw autocorrelation estimates are multiples of 1 / RawDen
MaxRaw == 6         \* largest raw estimate, in units of 1 / RawDen
MaxEnsemble == 2    \* largest number of free coordinates of an ensemble
MaxBatch == 2       \* largest number of rows of a batch given to logp

----------------------------------------------------------------------------
(* Floating point values. *)

NaN == [k |-> "nan", v |-> 0]
PosInf == [k |-> "inf", v |-> 0]
NegInf == [k |-> "ninf", v |-> 0]
Fin(x) == [k |-> "fin", v |-> x]

isfinite(a) == a.k = "fin"

\* int * float
Mul(i, a) ==
    CASE a.k = "fin" -> Fin(i * a.v)
      [] a.k = "nan" -> NaN
      [] a.k = "inf" -> IF i > 0 THEN PosInf ELSE IF i < 0 THEN NegInf ELSE NaN
      [] a.k = "ninf" -> IF i > 0 THEN NegInf ELSE IF i < 0 THEN PosInf ELSE NaN

\* int < float: every comparison with NaN is false
Lt(i, a) ==
    CASE a.k = "fin" -> i < a.v
      [] a.k = "inf" -> TRUE
      [] OTHER -> FALSE

\* Python's max(i, a): the first argument unless the second is greater
PyMax(i, a) == IF Lt(i, a) THEN a ELSE Fin(i)

\* int + float
Add(i, a) == IF a.k = "fin" THEN Fin(i + a.v) ELSE a

\* ceil of the rational num / den
Ceil(num, den) == -((-num) \div den)

Max(a, b) == IF a >= b THEN a ELSE b

----------------------------------------------------------------------------
(* The box prior, ez_emcee.py lines 25-26. *)

\* numpy broadcasting of a bound sequence of length 1 along the last axis
At(v, i) == IF Len(v) = 1 THEN v[1] ELSE v[i]

\* mutant: the upper bound is not tested
logpRowNoUpper(x, lo_, hi_) ==
    IF \A i \in 1..Len(x) : x[i] >= At(lo_, i) THEN Fin(0) ELSE NegInf

\* mutant: the upper bound is exclusive
logpRowStrict(x, lo_, hi_) ==
    IF \A i \in 1..Len(x) : x[i] >= At(lo_, i) /\ x[i] < At(hi_, i)
    THEN Fin(0) ELSE NegInf

\* logp on one parameter vector: ((x >= lo) & (x <= hi)).all(-1), then where(...)
logpRow(x, lo_, hi_) ==
    IF \A i \in 1..Len(x) : x[i] >= At(lo_, i) /\ x[i] <= At(hi_, i)
    THEN Fin(0) ELSE NegInf

\* logp on a batch: the last axis is reduced, one value per row is left
logp(X, lo_, hi_) == [r \in 1..Len(X) |-> logpRow(X[r], lo_, hi_)]

----------------------------------------------------------------------------
(* The arguments of a run. *)

Coords == -1..MaxCoord
Rows(d) == [1..d -> Coords]

NindepValues == {-1, 0, 1, 64, 65}
NburninValues == -1..MaxBurnin

UnitBox == [lo |-> <<0>>, hi |-> <<1>>]
PointBox == [lo |-> <<1>>, hi |-> <<1>>]
ErrorBox == [lo |-> <<0>>, hi |-> <<1, 1>>]    \* len(hi) = 2, len(lo) = 1
Boxes ==
    { UnitBox, PointBox,
      [lo |-> <<0, 1>>, hi |-> <<1, 1>>],    \* second dimension fixed
      [lo |-> <<0, 0>>, hi |-> <<1>>],       \* len(hi) = 1: broadcasts
      ErrorBox }

\* the number of walkers the run will use (line 94-95)
WalkersOf(nw_, lo_) == IF nw_ = <<>> THEN 4 * Len(lo_) ELSE nw_[1]

\* how many coordinates of the ensemble can take more than one value
FreeCoords(c) ==
    c.ntemps * WalkersOf(c.nwalkers, c.box.lo)
      * Cardinality({i \in 1..Len(c.box.lo) : c.box.lo[i] < At(c.box.hi, i)})

\* runs that sweep the controller's arguments, over an ensemble of the default
\* shape in a box of one point, and a few other shapes
ControllerArgs ==
    [nindep : NindepValues, nburnin : {1}, ntemps : {2},
     nwalkers : {<<>>}, box : {PointBox}]
    \cup
    [nindep : {1}, nburnin : NburninValues, ntemps : {2},
     nwalkers : {<<>>}, box : {PointBox}]
    \cup
    [nindep : {64}, nburnin : {0}, ntemps : {1},
     nwalkers : {<<1>>, <<2>>}, box : {UnitBox, ErrorBox}]
    \cup
    [nindep : {64}, nburnin : {1}, ntemps : {10},
     nwalkers : {<<>>}, box : {PointBox}]

\* runs that sweep the shape of the ensemble and the box
EnsembleArgs ==
    { c \in [nindep : {1}, nburnin : {1}, ntemps : {1, 2},
             nwalkers : {<<>>, <<1>>}, box : Boxes] :
        FreeCoords(c) <= MaxEnsemble }


----------------------------------------------------------------------------
(* The ensemble sampler (bayestar/ptemcee.py, after the interface section   *)
(* of the specification).                                                   *)

nw == nwalkers[1]

\* One iteration: every walker keeps a position of the ensemble (a rejected
\* move, or a swap between temperatures) or takes a proposal, which is
\* accepted only where the log-prior is finite.
Reachable(p) ==
    {y \in Rows(ndim) :
        \/ \E t \in 1..ntemps, w \in 1..nw : p[t][w] = y
        \/ isfinite(logpRow(y, lo, hi))}

Advance(p) == LET R == Reachable(p) IN [1..ntemps -> [1..nw -> R]]

\* sampler.sample(p0, iterations, storechain): one iteration of the generator
\* (which began at p0), yielding the new ensemble
SampleStep(storechain) ==
    \E q \in Advance(gen) :
        /\ gen' = q
        /\ time' = time + 1
        /\ it' = it + 1
        /\ hist' = IF storechain
                   THEN Append(hist, [phase |-> pc, t |-> time + 1])
                   ELSE hist
        /\ stored' = IF storechain
                     THEN stored \cup {q[1][w] : w \in 1..nw}
                     ELSE stored

\* sampler.chain[t, w, i, :] (i counted from 1)
ChainAt(t, w, i) == [temp |-> t, walker |-> w, entry |-> hist[i]]

----------------------------------------------------------------------------
(* The controller, ez_emcee.py lines 90-139. *)

NSTEPS0 == 64

\* np.random.uniform(lo, hi, (ntemps, nwalkers, ndim)) raises ValueError unless
\* hi broadcasts to the last axis
CanBroadcast(lo_, hi_) == Len(hi_) = Len(lo_) \/ Len(hi_) = 1

\* the draws of np.random.uniform(lo, hi, (ntemps, nwalkers, ndim))
Uniform(lo_, hi_, nt, nwk) ==
    [1..nt -> [1..nwk ->
        {x \in Rows(Len(lo_)) : \A i \in 1..Len(lo_) : lo_[i] <= x[i] /\ x[i] <= At(hi_, i)}]]

\* mutant: the loop does not test whether acl is finite
WhileCondNoNan(a, t) == Lt(t, Mul(nindep, a))

\* mutant: the loop goes on while time <= nindep * acl
WhileCondLe(a, t) == ~isfinite(a) \/ Lt(t - 1, Mul(nindep, a))

\* mutant: twice the requested number of independent samples
WhileCondTwice(a, t) == ~isfinite(a) \/ Lt(t, Mul(2 * nindep, a))

\* the while condition of line 114
WhileCond(a, t) == ~isfinite(a) \/ Lt(t, Mul(nindep, a))

\* mutant: the arguments of max are swapped, so that a NaN product is kept
RoundTotalSwapped(t, ns, a) ==
    LET x == Mul(nindep, a)
    IN  Add(nburnin, IF (x.k = "fin" /\ t + ns > x.v) \/ x.k = "ninf"
                     THEN Fin(t + ns) ELSE x)

\* mutant: a total that leaves out the burn-in
RoundTotalNoBurnin(t, ns, a) == PyMax(t + ns, Mul(nindep, a))

\* line 117-118
RoundTotal(t, ns, a) == Add(nburnin, PyMax(t + ns, Mul(nindep, a)))

\* mutant: the round grows by 64 instead of doubling
NextStepsLinear(ns) == ns + NSTEPS0

\* mutant: rounds that shrink
NextStepsHalf(ns) == ns \div 2

\* line 135
NextSteps(ns) == ns * 2

\* mutant: the burn-in keeps its history
BurninStoreOn == TRUE

\* line 109: the burn-in iterations are run with storechain=False
BurninStore == FALSE

\* line 120: the sampling rounds keep their history (storechain defaults to True)
RoundStore == TRUE

\* sampler.get_autocorr_time()[0].max(): any float
RawEstimates == {NaN, PosInf, NegInf} \cup {Fin(v) : v \in -1..MaxRaw}

\* mutant: the estimate rounded down
RefreshFloor(raw) == IF isfinite(raw) THEN Fin(Max(1, raw.v \div RawDen)) ELSE raw

\* line 126-127, on the raw estimate raw.v / RawDen
Refresh(raw) == IF isfinite(raw) THEN Fin(Max(1, Ceil(raw.v, RawDen))) ELSE raw

\* mutant: the thinned chain starts at index acl (chain[0, :, acl::acl, :])
ThinSkipFirst(h, a) ==
    LET cnt == Ceil(Len(h), a) - 1
    IN  [r \in 1..(nw * cnt) |->
            [temp |-> 1, walker |-> ((r - 1) \div cnt) + 1,
             entry |-> h[1 + a + ((r - 1) % cnt) * a]]]

\* mutant: the thinned chain flattened iteration by iteration
ThinIterMajor(h, a) ==
    LET cnt == Ceil(Len(h), a)
    IN  [r \in 1..(nw * cnt) |->
            [temp |-> 1, walker |-> ((r - 1) % nw) + 1,
             entry |-> h[1 + ((r - 1) \div nw) * a]]]

\* lines 137-139: chain[0, :, ::acl, :] of a chain with history h, flattened
\* walker by walker
Thin(h, a) ==
    LET cnt == Ceil(Len(h), a)
    IN  [r \in 1..(nw * cnt) |->
            [temp |-> 1, walker |-> ((r - 1) \div cnt) + 1,
             entry |-> h[1 + ((r - 1) % cnt) * a]]]

\* mutant: a burn-in loop that does not bind what the generator yields
BurninYieldDropped(old, new) == old

\* line 108: "for pos, _, _ in sampler.sample(...)" binds pos to what the
\* burn-in generator yields
BurninYield(old, new) == new

\* line 120: the same for a sampling round
RoundYield(old, new) == new

\* line 110: progress.update() in the burn-in loop
BurninTick(k) == k + 1

\* mutant: a sampling round that reports nothing
RoundTickNone(k) == k

\* line 121: progress.update() in a sampling round
RoundTick(k) == k + 1

\* The test of the while loop with acl = a, sampler.time = t, history h and
\* nsteps = ns, after r completed rounds: the next round is set up (lines
\* 117-120, the generator starting from pos), or the loop is left and the
\* chain returned (lines 137-139).
Loop(a, t, h, ns, r) ==
    IF WhileCond(a, t)
    THEN /\ r < MaxRounds
         /\ total' = RoundTotal(t, ns, a)
         /\ desc' = "Sampling"
         /\ it' = 0
         /\ gen' = pos
         /\ pc' = "SAMPLING"
         /\ ret' = ret
    ELSE /\ UNCHANGED <<total, desc, it, gen>>
         /\ IF isfinite(a) /\ a.v # 0
            THEN pc' = "DONE" /\ ret' = [rows |-> Thin(h, a.v), cols |-> ndim]
            ELSE pc' = "ERROR" /\ ret' = ret    \* a slice step must be a nonzero integer

\* lines 90-108
Construct ==
    /\ pc = "INIT"
    /\ ndim' = Len(lo)
    /\ nwalkers' = IF nwalkers = <<>> THEN <<4 * Len(lo)>> ELSE nwalkers
    /\ nsteps' = NSTEPS0
    /\ total' = Fin(nburnin + nindep * NSTEPS0)
    /\ IF CanBroadcast(lo, hi)
       THEN /\ pos' \in Uniform(lo, hi, ntemps, WalkersOf(nwalkers, lo))
            /\ gen' = pos'
            /\ desc' = "Burning in"
            /\ pc' = "BURNIN"
       ELSE /\ UNCHANGED <<pos, gen, desc>>
            /\ pc' = "ERROR"
    /\ UNCHANGED <<nindep, nburnin, ntemps, lo, hi, n, time, hist, stored, it,
                   acl, rawacl, nacl, ret, px, pout, aux>>

\* mutant: a burn-in loop that tests its bound after the body
BurninStepAtLeastOnce ==
    /\ pc = "BURNIN"
    /\ it < nburnin \/ it = 0
    /\ SampleStep(BurninStore)
    /\ pos' = BurninYield(pos, gen')
    /\ n' = BurninTick(n)
    /\ UNCHANGED <<pc, nindep, nburnin, ntemps, nwalkers, lo, hi, ndim, nsteps,
                   total, desc, acl, rawacl, nacl, ret, px, pout, aux>>

\* lines 108-110: one burn-in iteration
BurninStep ==
    /\ pc = "BURNIN"
    /\ it < nburnin
    /\ SampleStep(BurninStore)
    /\ pos' = BurninYield(pos, gen')
    /\ n' = BurninTick(n)
    /\ UNCHANGED <<pc, nindep, nburnin, ntemps, nwalkers, lo, hi, ndim, nsteps,
                   total, desc, acl, rawacl, nacl, ret, px, pout, aux>>

\* lines 112-114: the burn-in is over; reset, and the first test of the loop
Reset ==
    /\ pc = "BURNIN"
    /\ it >= nburnin
    /\ time' = 0
    /\ hist' = <<>>
    /\ stored' = {}
    /\ acl' = NaN
    /\ Loop(NaN, 0, <<>>, nsteps, nacl)
    /\ UNCHANGED <<nindep, nburnin, ntemps, nwalkers, lo, hi, ndim, nsteps, n,
                   pos, rawacl, nacl, px, pout, aux>>

\* lines 120-121: one iteration of a sampling round
RoundStep ==
    /\ pc = "SAMPLING"
    /\ it < nsteps
    /\ SampleStep(RoundStore)
    /\ pos' = RoundYield(pos, gen')
    /\ n' = RoundTick(n)
    /\ UNCHANGED <<pc, nindep, nburnin, ntemps, nwalkers, lo, hi, ndim, nsteps,
                   total, desc, acl, rawacl, nacl, ret, px, pout, aux>>

\* mutant: the loop is tested when the round ends, with the acl of the check
\* before, and the run returns without a new check
RoundEndStale ==
    /\ pc = "SAMPLING"
    /\ it >= nsteps
    /\ IF WhileCond(acl, time)
       THEN desc' = "Checking" /\ pc' = "CHECKING"
       ELSE desc' = desc /\ pc' = "DONE"
    /\ UNCHANGED <<nindep, nburnin, ntemps, nwalkers, lo, hi, ndim, nsteps, total,
                   n, pos, gen, time, hist, stored, it, acl, rawacl, nacl, ret, px, pout,
                   aux>>

\* line 124: the round is over
RoundEnd ==
    /\ pc = "SAMPLING"
    /\ it >= nsteps
    /\ desc' = "Checking"
    /\ pc' = "CHECKING"
    /\ UNCHANGED <<nindep, nburnin, ntemps, nwalkers, lo, hi, ndim, nsteps, total,
                   n, pos, gen, time, hist, stored, it, acl, rawacl, nacl, ret, px, pout,
                   aux>>

\* lines 125-135, and the next test of the loop
Check ==
    /\ pc = "CHECKING"
    /\ \E est \in RawEstimates :
        /\ rawacl' = est
        /\ acl' = Refresh(est)
        /\ nacl' = nacl + 1
        /\ nsteps' = NextSteps(nsteps)
        /\ Loop(Refresh(est), time, hist, NextSteps(nsteps), nacl + 1)
    /\ UNCHANGED <<nindep, nburnin, ntemps, nwalkers, lo, hi, ndim, n, pos, time,
                   hist, stored, px, pout, aux>>

\* the state at the call, with arguments c
Start(c) ==
    /\ pc = "INIT"
    /\ nindep = c.nindep
    /\ nburnin = c.nburnin
    /\ ntemps = c.ntemps
    /\ nwalkers = c.nwalkers
    /\ lo = c.box.lo
    /\ hi = c.box.hi
    /\ ndim = 0
    /\ nsteps = 0
    /\ total = NaN
    /\ n = 0
    /\ desc = ""
    /\ pos = <<>>
    /\ gen = <<>>
    /\ time = 0
    /\ hist = <<>>
    /\ stored = {}
    /\ it = 0
    /\ acl = NaN
    /\ rawacl = NaN
    /\ nacl = 0
    /\ ret = [rows |-> <<>>, cols |-> 0]
    /\ px = <<>>
    /\ pout = <<>>
    /\ runs = <<>>
    /\ rng = 0
    /\ cli = <<>>

Init == \E c \in ControllerArgs : Start(c)

InitBox == \E c \in EnsembleArgs : Start(c)

Next == Construct \/ BurninStep \/ Reset \/ RoundStep \/ RoundEnd \/ Check

Spec == Init /\ [][Next]_vars

SpecBox == InitBox /\ [][Next]_vars

\* The run is one sequential thread: a statement that can execute does, and
\* every call into the sampler returns.
SpecFair == Init /\ [][Next]_vars /\ WF_vars(Next)

----------------------------------------------------------------------------
(* The prior on its own: logp applied to a batch of rows.  The bounds may    *)
(* describe an empty box (lo > hi); x, lo and hi have the same length.       *)

\* the numbers of dimensions logp is run with
PriorDims == {1, 2}

Batches(d) == UNION {[1..k -> Rows(d)] : k \in 0..MaxBatch}

InitPrior ==
    /\ pc = "PRIOR"
    /\ \E d \in PriorDims :
        /\ lo \in [1..d -> 0..1]
        /\ hi \in [1..d -> 0..1]
        /\ px \in Batches(d)
        /\ ndim = d
    /\ pout = <<>>
    /\ nindep = 0
    /\ nburnin = 0
    /\ ntemps = 0
    /\ nwalkers = <<>>
    /\ nsteps = 0
    /\ total = NaN
    /\ n = 0
    /\ desc = ""
    /\ pos = <<>>
    /\ gen = <<>>
    /\ time = 0
    /\ hist = <<>>
    /\ stored = {}
    /\ it = 0
    /\ acl = NaN
    /\ rawacl = NaN
    /\ nacl = 0
    /\ ret = [rows |-> <<>>, cols |-> 0]
    /\ runs = <<>>
    /\ rng = 0
    /\ cli = <<>>

\* the call logp(px, lo, hi)
EvalPrior ==
    /\ pc = "PRIOR"
    /\ pout' = logp(px, lo, hi)
    /\ pc' = "PRIORDONE"
    /\ UNCHANGED <<nindep, nburnin, ntemps, nwalkers, lo, hi, ndim, nsteps, total,
                   n, desc, pos, gen, time, hist, stored, it, acl, rawacl, nacl, ret, px,
                   aux>>

NextPrior == EvalPrior

SpecPrior == InitPrior /\ [][NextPrior]_vars

----------------------------------------------------------------------------
(* Two runs of ez_emcee in one process, their statements interleaved.  Each *)
(* run has its own locals and its own Sampler; np.random, which both draw   *)
(* the initial ensemble from (line 104) and hand to their samplers (line    *)
(* 103), is the module-level generator of the process.  Of a run only the   *)
(* random numbers it has been given are kept.                               *)

\* the state of one run, held still in the models of two
single == <<pc, nindep, nburnin, ntemps, nwalkers, lo, hi, ndim, nsteps, total, n,
            desc, pos, gen, time, hist, stored, it, acl, rawacl, nacl, ret, px, pout>>

Idle(mode) ==
    /\ pc = mode
    /\ nburnin = 0 /\ ntemps = 0 /\ nwalkers = <<>>
    /\ lo = <<>> /\ hi = <<>> /\ ndim = 0
    /\ nsteps = 0 /\ total = NaN /\ n = 0 /\ desc = ""
    /\ pos = <<>> /\ gen = <<>> /\ time = 0 /\ hist = <<>> /\ stored = {}
    /\ it = 0 /\ acl = NaN /\ rawacl = NaN /\ nacl = 0
    /\ ret = [rows |-> <<>>, cols |-> 0]
    /\ px = <<>> /\ pout = <<>>

RngMod == 8         \* the generator has RngMod states
MaxDraws == 2       \* draws a sampler makes after the initial one

\* np.random: a deterministic generator; a draw returns its state and
\* advances it
NextRandom(g) == (5 * g + 3) % RngMod

RECURSIVE Stream(_, _)
\* the first k numbers of a generator in state g that nothing else draws from
Stream(g, k) == IF k = 0 THEN <<>> ELSE <<g>> \o Stream(NextRandom(g), k - 1)

InitTwo ==
    /\ Idle("TWO")
    /\ nindep = 0
    /\ cli = <<>>
    /\ \E g \in 0..(RngMod - 1) :
        /\ rng = g
        /\ runs = [r \in 1..2 |-> [at |-> "INIT", seed |-> g, seen |-> <<>>]]

\* line 104 in run r: pos = np.random.uniform(...)
DrawInitial(r) ==
    /\ runs[r].at = "INIT"
    /\ runs' = [runs EXCEPT ![r].at = "BURNIN", ![r].seen = Append(@, rng)]
    /\ rng' = NextRandom(rng)
    /\ UNCHANGED <<single, cli>>

\* lines 103, 108: an iteration of run r's sampler, built with
\* random=np.random, draws its proposals
DrawIteration(r) ==
    /\ runs[r].at = "BURNIN"
    /\ Len(runs[r].seen) <= MaxDraws
    /\ runs' = [runs EXCEPT ![r].seen = Append(@, rng)]
    /\ rng' = NextRandom(rng)
    /\ UNCHANGED <<single, cli>>

NextTwo == \E r \in 1..2 : DrawInitial(r) \/ DrawIteration(r)

SpecTwo == InitTwo /\ [][NextTwo]_vars

----------------------------------------------------------------------------
(* Two runs with the same nindep side by side, from the reset on, a round   *)
(* and its check at a time.  Both are given the same autocorrelation        *)
(* estimates; each reads an acceptance fraction of its own and shows it on  *)
(* a progress bar of its own.                                               *)

MaxAccept == 2      \* acceptance fractions are multiples of 1 / MaxAccept

\* np.mean(sampler.acceptance_fraction[0]), line 128
AcceptValues == 0..MaxAccept

\* mutant: a loop that goes on while no move has been accepted
DecideOnAccept(a, t, acc) == WhileCond(a, t) \/ acc = 0

\* line 114 after a check that stored acl = a and accept = acc at
\* sampler.time = t: whether another round follows
Decide(a, t, acc) == WhileCond(a, t)

\* lines 117-135 for one run u: a round of u.nsteps iterations, then the check
\* with estimate est and acceptance fraction acc, then the loop test
RunRound(u, est, acc) ==
    IF u.at # "LOOP" \/ u.nacl >= MaxRounds
    THEN u
    ELSE LET t == u.time + u.nsteps
             a == Refresh(est)
         IN  [at |-> IF Decide(a, t, acc) THEN "LOOP" ELSE "DONE",
              nsteps |-> NextSteps(u.nsteps),
              time |-> t,
              acl |-> a,
              nacl |-> u.nacl + 1,
              postfix |-> [acl |-> a, accept |-> acc]]

InitPair ==
    /\ Idle("PAIR")
    /\ nindep \in NindepValues
    /\ rng = 0
    /\ cli = <<>>
    /\ runs = [r \in 1..2 |->
                 [at |-> "LOOP", nsteps |-> NSTEPS0, time |-> 0, acl |-> NaN,
                  nacl |-> 0, postfix |-> <<>>]]

PairRound ==
    /\ \E r \in 1..2 : runs[r].at = "LOOP" /\ runs[r].nacl < MaxRounds
    /\ \E est \in RawEstimates, acc \in [1..2 -> AcceptValues] :
        runs' = [r \in 1..2 |-> RunRound(runs[r], est, acc[r])]
    /\ UNCHANGED <<single, rng, cli>>

NextPair == PairRound

SpecPair == InitPair /\ [][NextPair]_vars

----------------------------------------------------------------------------
(* The argparse actions of tool/__init__.py.  A string is the sequence of   *)
(* the pieces it is made of: "--enable-x" is <<"--enable-", "x">>.          *)

Pieces == {"--enable-", "--disable-", "-", "x"}

\* the option strings an action is constructed with
OptionStrings == {<<a>> : a \in Pieces} \cup {<<a, b>> : a, b \in Pieces}

\* str.startswith
StartsWith(str, prefix) == Len(str) >= 1 /\ str[1] = prefix

\* str.replace(old, new): every occurrence
Replace(str, old, new) == [i \in 1..Len(str) |-> IF str[i] = old THEN new ELSE str[i]]

MaxOccurrences == 3     \* occurrences of the option on one command line

\* the option_strings argparse hands to the constructor: one string for
\* add_argument('--enable-x', action=EnableAction), none or two otherwise
OptionLists ==
    {<<>>} \cup {<<o>> : o \in OptionStrings}
           \cup {<<o, <<"-", "x">> >> : o \in {<<"--enable-", "x">>, <<"-">>}}

\* line 72: default=True; <<>> is a call that does not pass default
DefaultOf(d) == IF d = <<>> THEN TRUE ELSE d[1]

InitEnable ==
    /\ Idle("ENABLE")
    /\ nindep = 0
    /\ runs = <<>>
    /\ rng = 0
    /\ \E os \in OptionLists, d \in {<<>>, <<TRUE>>, <<FALSE>>} :
        cli = [at |-> "NEW", args |-> os, default |-> d, registered |-> <<>>,
               value |-> <<>>, last |-> 0, seen |-> 0]

\* lines 69-84: EnableAction.__init__; the parser then starts every parse
\* with the default in the namespace
EnableConstruct ==
    /\ pc = "ENABLE"
    /\ cli.at = "NEW"
    /\ IF Len(cli.args) # 1
       THEN cli' = [cli EXCEPT !.at = "ValueError"]     \* opt, = option_strings
       ELSE LET opt == cli.args[1]
            IN  IF ~StartsWith(opt, "--enable-")
                THEN cli' = [cli EXCEPT !.at = "ValueError"]
                ELSE cli' = [cli EXCEPT
                                !.at = "READY",
                                !.registered =
                                    <<opt, Replace(opt, "--enable-", "--disable-")>>,
                                !.value = <<DefaultOf(cli.default)>>]
    /\ UNCHANGED <<single, runs, rng>>

\* lines 86-92: what EnableAction.__call__ does with option_string
Called(option_string) ==
    IF StartsWith(option_string, "--enable-") THEN "True"
    ELSE IF StartsWith(option_string, "--disable-") THEN "False"
    ELSE "RuntimeError"

\* lines 86-92: one occurrence on the command line of the k-th registered
\* option string
EnableCall ==
    /\ pc = "ENABLE"
    /\ cli.at = "READY"
    /\ cli.seen < MaxOccurrences
    /\ \E k \in 1..Len(cli.registered) :
        LET c == Called(cli.registered[k])
        IN  cli' = [cli EXCEPT
                       !.at = IF c = "RuntimeError" THEN c ELSE @,
                       !.value = IF c = "RuntimeError" THEN @ ELSE <<c = "True">>,
                       !.last = k,
                       !.seen = @ + 1]
    /\ UNCHANGED <<single, runs, rng>>

NextEnable == EnableConstruct \/ EnableCall

SpecEnable == InitEnable /\ [][NextEnable]_vars

\* GlobAction, lines 96-130.  File names and patterns are strings, sequences
\* of the characters "a", "b" and, in a pattern, "*".

MaxPatterns == 2    \* command-line arguments of one occurrence of the option

\* the names a file of the directory can have
FileNames == {<<"a">>, <<"b">>, <<"a", "b">>}

\* the arguments of the option
Patterns == {<<"a">>, <<"*">>, <<"a", "*">>, <<"a", "b">>, <<"b", "b">>}

\* the listings of a directory: some of the files, in the order the file
\* system yields them
Listings ==
    {d \in UNION {[1..k -> FileNames] : k \in 0..Cardinality(FileNames)} :
        \A i, j \in 1..Len(d) : i # j => d[i] # d[j]}

RECURSIVE Matches(_, _)
\* fnmatch: the pattern pat matches the name f, "*" standing for any string
Matches(pat, f) ==
    IF pat = <<>> THEN f = <<>>
    ELSE IF Head(pat) = "*"
         THEN Matches(Tail(pat), f) \/ (f # <<>> /\ Matches(pat, Tail(f)))
         ELSE f # <<>> /\ Head(pat) = Head(f) /\ Matches(Tail(pat), Tail(f))

\* glob.iglob(pat) in a directory with listing d
Glob(pat, d) == SelectSeq(d, LAMBDA f : Matches(pat, f))

RECURSIVE Chain(_)
\* itertools.chain.from_iterable
Chain(ss) == IF ss = <<>> THEN <<>> ELSE Head(ss) \o Chain(Tail(ss))

\* what "for s in values" yields: the elements of a list, the characters of
\* a string (each a string of length one)
Iterate(values) ==
    IF values.type = "str"
    THEN [i \in 1..Len(values.v) |-> <<values.v[i]>>]
    ELSE values.v

\* nargs of the option: "?", "+", "*", or an integer ("int", with its value)
NargsValues ==
    {[k |-> c, v |-> 0] : c \in {"?", "+", "*"}}
        \cup {[k |-> "int", v |-> i] : i \in 1..MaxPatterns}

\* the values argparse passes to the action for nargs: a list of the
\* arguments, but the argument itself for "?"
ValuesFor(nargs_) ==
    IF nargs_.k = "?"
    THEN {[type |-> "str", v |-> q] : q \in Patterns}
    ELSE {[type |-> "list", v |-> l] :
            l \in { l \in UNION {[1..j -> Patterns] : j \in 0..MaxPatterns} :
                      /\ nargs_.k = "+" => Len(l) >= 1
                      /\ nargs_.k = "int" => Len(l) = nargs_.v }}

\* what the destination holds before the call: <<>> for None, or <<l>> for
\* a list l of files
Previous == {<<>>, << <<>> >>, << << <<"b">> >> >>, << << <<"b">>, <<"a">> >> >>}

InitGlob ==
    /\ Idle("GLOB")
    /\ nindep = 0
    /\ runs = <<>>
    /\ rng = 0
    /\ \E na \in NargsValues, d \in Listings, prev \in Previous :
        \E vs \in ValuesFor(na) :
            cli = [at |-> "NEW", nargs |-> na, values |-> vs, dir |-> d,
                   previous |-> prev, dest |-> prev, msg |-> <<>>]

\* lines 105-106
NumberOf(kept) == IF kept = <<>> THEN 0 ELSE Len(kept[1])

\* the word "file" in the plural unless j = 1
FileWord(j) == IF j = 1 THEN "file" ELSE "files"

\* lines 107-124: the first part of the message, <<>> for None
Expected(nargs_, nvalues) ==
    IF nargs_.k = "?"
    THEN IF nvalues > 1
         THEN <<[text |-> "expected at most one", number |-> 1, word |-> "file"]>>
         ELSE <<>>
    ELSE IF nargs_.k = "+"
    THEN IF nvalues < 1
         THEN <<[text |-> "expected at least one", number |-> 1, word |-> "file"]>>
         ELSE <<>>
    ELSE IF nargs_.k = "*"
    THEN <<>>
    ELSE IF nargs_.v # nvalues
    THEN <<[text |-> "expected exactly", number |-> nargs_.v,
            word |-> FileWord(nargs_.v)]>>
    ELSE <<>>

\* lines 99-130: GlobAction.__call__
GlobCall ==
    /\ pc = "GLOB"
    /\ cli.at = "NEW"
    /\ LET found == Chain([i \in 1..Len(Iterate(cli.values)) |->
                             Glob(Iterate(cli.values)[i], cli.dir)])
           kept == IF found # <<>> THEN <<found>> ELSE cli.dest
           nvalues == NumberOf(kept)
           text == Expected(cli.nargs, nvalues)
       IN  cli' = [cli EXCEPT
                      !.dest = kept,
                      !.msg = IF text = <<>> THEN text
                              ELSE text \o <<[text |-> ", but found",
                                              number |-> nvalues,
                                              word |-> FileWord(nvalues)]>>,
                      !.at = IF text = <<>> THEN "STORED" ELSE "ArgumentError"]
    /\ UNCHANGED <<single, runs, rng>>

NextGlob == GlobCall

SpecGlob == InitGlob /\ [][NextGlob]_vars

----------------------------------------------------------------------------
(* Properties. *)

RECURSIVE Pow2(_)
Pow2(k) == IF k = 0 THEN 1 ELSE 2 * Pow2(k - 1)

Running == pc \in {"BURNIN", "SAMPLING", "CHECKING", "DONE"}
InLoop == pc \in {"SAMPLING", "CHECKING", "DONE"}

\* sampler.time when the current round began
RoundStart == time - it

\* C1: the loop is never left at a check whose autocorrelation length is not
\* finite, however many iterations there are: a finished run has a finite acl,
\* and a run fails only in the initial draw, never in or after the loop.
C1_NoExitWhileAclNonFinite ==
    /\ pc = "DONE" => isfinite(acl)
    /\ pc = "ERROR" => pos = <<>> /\ nacl = 0 /\ n = 0

\* a third round running after two checks, the last of which gave +inf, with
\* far more iterations than nindep
C1_Witness ==
    /\ pc = "SAMPLING" /\ nacl = 2 /\ acl = PosInf
    /\ nindep = 1 /\ time >= 192

\* C2: the run is done exactly when the freshly computed acl is finite and
\* time >= nindep * acl: that holds of a finished run, and no round after the
\* first was started with it true.
C2_StopsAtFirstSatisfiedCheck ==
    /\ pc = "DONE" => isfinite(acl) /\ time >= nindep * acl.v
    /\ (pc = "SAMPLING" /\ nacl > 0) =>
          ~(isfinite(acl) /\ RoundStart >= nindep * acl.v)

\* a run that went on after a first check (64 < 64 * 2) and stopped at the
\* second with time = nindep * acl exactly
C2_Witness ==
    /\ pc = "DONE" /\ nacl = 2 /\ nindep = 64 /\ acl = Fin(3) /\ time = 192

\* C3: with nindep > 0, the returned array has ndim = len(lo) columns and at
\* least nindep * nwalkers rows.
C3_ReturnedShape ==
    (pc = "DONE" /\ nindep > 0) =>
        /\ ret.cols = Len(lo)
        /\ Len(ret.rows) >= nindep * nw

\* a run returning exactly nindep * nwalkers rows, of the default 4 * ndim walkers
C3_Witness ==
    /\ pc = "DONE" /\ nindep = 64 /\ acl = Fin(1) /\ nw = 4
    /\ Len(ret.rows) = 256

InBox(x) == \A i \in 1..Len(lo) : lo[i] <= x[i] /\ x[i] <= At(hi, i)

\* C4: every walker position, at every temperature and in every state, lies in
\* the box, and so does every row held by the chain the result is cut from; a
\* coordinate with lo_i = hi_i has that value.
C4_PositionsInBox ==
    Running =>
        /\ \A t \in 1..ntemps, w \in 1..nw : InBox(pos[t][w])
        /\ \A x \in stored :
              /\ InBox(x)
              /\ \A i \in 1..Len(lo) : lo[i] = At(hi, i) => x[i] = lo[i]

\* a finished run in the box [0, 1] x [1, 1] whose chain holds both corners
C4_Witness ==
    /\ pc = "DONE" /\ lo = <<0, 1>> /\ hi = <<1, 1>>
    /\ stored = {<<0, 1>>, <<1, 1>>}

\* C5: logp gives one value per row of the batch: 0.0 where every coordinate
\* of the row is within its bounds, both ends included, and -inf elsewhere.
C5_LogpIsBoxIndicator ==
    pc = "PRIORDONE" =>
        /\ Len(pout) = Len(px)
        /\ \A r \in 1..Len(px) :
              IF \A i \in 1..ndim : lo[i] <= px[r][i] /\ px[r][i] <= hi[i]
              THEN pout[r] = Fin(0)
              ELSE pout[r] = NegInf

\* a batch of two rows of two dimensions, the first on the corner of the box
\* and the second outside in its last coordinate only
C5_Witness ==
    /\ pc = "PRIORDONE" /\ lo = <<0, 0>> /\ hi = <<1, 1>>
    /\ px = << <<0, 1>>, <<0, 2>> >>
    /\ pout = <<Fin(0), NegInf>>

InvalidConfiguration == nindep <= 0 \/ Len(lo) # Len(hi) \/ nburnin < 0

\* C6: a run with an invalid configuration ends in an error before any
\* sampler iteration: it reports no tick and does not return.
C6_InvalidFailsFast ==
    InvalidConfiguration => (n = 0 /\ time = 0 /\ pc # "DONE")

PhaseEdges ==
    { <<"INIT", "BURNIN">>, <<"BURNIN", "BURNIN">>, <<"BURNIN", "SAMPLING">>,
      <<"SAMPLING", "SAMPLING">>, <<"SAMPLING", "CHECKING">>,
      <<"CHECKING", "SAMPLING">>, <<"CHECKING", "DONE">> }

\* C7: the phase moves only along INIT -> BURNIN -> SAMPLING -> CHECKING ->
\* (SAMPLING | DONE) (a phase lasts for its iterations; the initial draw may
\* raise instead of entering BURNIN); a round that began after k checks is
\* followed by check k + 1 and by nothing else; nothing follows DONE.
C7_PhaseOrder ==
    [][ /\ <<pc, pc'>> \in PhaseEdges \cup {<<"INIT", "ERROR">>}
        /\ pc = "CHECKING" => nacl' = nacl + 1
        /\ pc # "CHECKING" => nacl' = nacl
        /\ (pc = "SAMPLING" /\ pc' = "CHECKING") => it = nsteps ]_vars

\* a third round entered from the second check
C7_Witness == pc = "SAMPLING" /\ nacl = 2 /\ it = 1 /\ isfinite(acl)

\* C8: round k (from 0) has 64 * 2^k iterations and is followed by one acl
\* computation: after k computations nsteps = 64 * 2^k and the iterations of
\* the completed rounds are 64 * (2^k - 1).
C8_RoundsDouble ==
    /\ Running => nsteps = 64 * Pow2(nacl)
    /\ pc = "SAMPLING" => RoundStart = 64 * (Pow2(nacl) - 1) /\ it <= nsteps
    /\ pc = "CHECKING" => time = 64 * (Pow2(nacl + 1) - 1)
    /\ pc = "DONE" => time = 64 * (Pow2(nacl) - 1) /\ nacl >= 1

\* three rounds of 64, 128 and 256 iterations
C8_Witness == pc = "DONE" /\ nacl = 3 /\ time = 448 /\ nsteps = 512

\* C9: the burn-in runs exactly nburnin iterations (nburnin >= 0) and none is
\* recorded; from the reset on the history holds exactly the iterations of the
\* rounds, in order, so no row of the result is a burn-in state.
C9_BurninNotRecorded ==
    /\ pc = "BURNIN" => hist = <<>> /\ time = it /\ n = it
    /\ (pc = "BURNIN" /\ nburnin >= 0) => it <= nburnin
    /\ InLoop =>
          /\ nburnin >= 0 => n - time = nburnin
          /\ Len(hist) = time
          /\ \A i \in 1..Len(hist) : hist[i] = [phase |-> "SAMPLING", t |-> i]
    /\ pc = "DONE" =>
          \A r \in 1..Len(ret.rows) : ret.rows[r].entry.phase = "SAMPLING"

\* a finished run after two burn-in iterations
C9_Witness == pc = "DONE" /\ nburnin = 2 /\ n = 66 /\ Len(hist) = 64

\* C10 as stated: the total of a round is nburnin + max(time + nsteps,
\* nindep * ACL), with a NaN ACL taken as 1.
C10_TotalTreatsNanAsOne ==
    pc = "SAMPLING" =>
        total = Add(nburnin,
                    PyMax(RoundStart + nsteps,
                          Mul(nindep, IF acl = NaN THEN Fin(1) ELSE acl)))

\* C10, amended: the total of a round is nburnin + max(time + nsteps,
\* nindep * ACL) when the ACL is finite, and nburnin + time + nsteps when it
\* is NaN; before the first round it is nburnin + 64.
C10_TotalOfRound ==
    pc = "SAMPLING" =>
        /\ isfinite(acl) =>
              total = Fin(nburnin + Max(RoundStart + nsteps, nindep * acl.v))
        /\ acl = NaN => total = Fin(nburnin + RoundStart + nsteps)
        /\ nacl = 0 => total = Fin(nburnin + 64)

\* the first round of a run with nindep = 65 > 64, and a later round after a
\* NaN estimate
C10_Witness ==
    /\ pc = "SAMPLING" /\ nindep = 65 /\ nacl = 1 /\ acl = NaN
    /\ total = Fin(nburnin + 192)


\* the burn-in loop of a run with nburnin = 0
ZeroBurnin == nburnin = 0 /\ pc = "BURNIN"

\* C11: with nburnin = 0 the burn-in loop is entered with the initial uniform
\* draw and left without an iteration or a tick for the first round of 64
\* iterations, which starts from that draw; a run whose draw succeeded gets
\* there, and never by way of an error.
C11_ZeroBurninGoesToFirstRound ==
    /\ [](ZeroBurnin => /\ it = 0 /\ n = 0 /\ time = 0 /\ hist = <<>>
                        /\ pos \in Uniform(lo, hi, ntemps, nw)
                        /\ gen = pos)
    /\ [][ZeroBurnin => /\ pc' = "SAMPLING"
                        /\ nsteps' = 64 /\ it' = 0
                        /\ n' = 0 /\ time' = 0 /\ hist' = <<>>
                        /\ pos' = pos /\ gen' = pos]_vars
    /\ (pc = "INIT" /\ nburnin = 0 /\ CanBroadcast(lo, hi))
           ~> (pc = "SAMPLING" /\ nacl = 0 /\ it = 0 /\ n = 0)

C11_Witness ==
    /\ nburnin = 0 /\ pc = "SAMPLING" /\ nacl = 0 /\ it = nsteps /\ n = 64
    /\ pos # <<>>

\* C12 as stated: from one state to the next neither nsteps nor sampler.time
\* decreases, anywhere in the run.
C12_NeverDecreases == [][nsteps' >= nsteps /\ time' >= time]_vars

\* C12: nsteps never decreases; sampler.time never decreases except in the
\* reset that ends a burn-in of at least one iteration, which takes it from
\* nburnin back to 0.
C12_MonotoneButForReset ==
    [][/\ nsteps' >= nsteps
       /\ time' < time => /\ pc = "BURNIN" /\ pc' # "BURNIN"
                          /\ nburnin >= 1
                          /\ time = nburnin /\ time' = 0]_vars

C12_Witness ==
    /\ nburnin >= 1 /\ pc = "CHECKING" /\ nacl >= 1
    /\ nsteps > 64 /\ time > nburnin

\* C13: two concurrent runs share no mutable state, the random source
\* included: whatever the other run does in between, a run is given the
\* random numbers it would be given running alone.
C13_RunsShareNothing ==
    \A r \in 1..2 :
        pc = "TWO" => runs[r].seen = Stream(runs[r].seed, Len(runs[r].seen))

\* the least integer not below the raw estimate r.v / RawDen
CeilRaw(r) == CHOOSE c \in -1..(MaxRaw + 1) : c * RawDen >= r.v /\ (c - 1) * RawDen < r.v

\* the length an estimate r stands for: max(1, ceil(r))
LengthOf(r) == IF CeilRaw(r) >= 1 THEN CeilRaw(r) ELSE 1

\* sampler.time after k rounds
TimeAfter(k) == 64 * (Pow2(k) - 1)

\* C14 as stated: a run with nindep > 0 whose estimates end finite and at most
\* A (its last estimate, at the least) is DONE by the first round count k with
\* 64 * (2^k - 1) >= nindep * max(1, ceil(A)), whatever the estimates before.
C14_DoneByFirstSufficientRound ==
    (pc = "DONE" /\ nindep > 0)
        => \A k \in 1..(nacl - 1) : TimeAfter(k) < nindep * LengthOf(rawacl)

\* C14: with nindep > 0, a run whose estimates are finite from some round on
\* reaches DONE; the k-th check comes at time 64 * (2^k - 1), and the run is
\* DONE at the first check from that round on whose estimate A is finite with
\* 64 * (2^k - 1) >= nindep * max(1, ceil(A)).
C14_DoneOnceEstimatesBounded ==
    /\ [](pc = "CHECKING" => time = TimeAfter(nacl + 1))
    /\ [][(/\ pc = "CHECKING" /\ nindep > 0
           /\ isfinite(rawacl')
           /\ TimeAfter(nacl + 1) >= nindep * LengthOf(rawacl'))
          => pc' = "DONE"]_vars
    /\ (nindep > 0 /\ <>[]isfinite(rawacl)) => <>(pc = "DONE")

C14_Witness ==
    /\ pc = "DONE" /\ nindep > 0 /\ nacl >= 2
    /\ TimeAfter(nacl - 1) < nindep * LengthOf(rawacl)

\* C15: once a check has run, the stored acl is the raw estimate itself where
\* that is not finite, and otherwise the integer max(1, ceil(raw)); the run
\* is DONE only with a finite integer acl >= 1, the stride of the thinning.
C15_AclIsCeilOrNonFinite ==
    /\ (nacl >= 1 /\ isfinite(rawacl))
           => /\ acl = Fin(LengthOf(rawacl))
              /\ acl.v >= 1
              /\ acl.v * RawDen >= rawacl.v
              /\ (acl.v > 1 => (acl.v - 1) * RawDen < rawacl.v)
    /\ (nacl >= 1 /\ ~isfinite(rawacl)) => (acl = rawacl /\ ~isfinite(acl))
    /\ nacl = 0 => acl = NaN
    /\ pc = "DONE" => (nacl >= 1 /\ isfinite(acl) /\ acl.v >= 1)

C15_Witness ==
    /\ pc = "DONE" /\ isfinite(rawacl) /\ rawacl.v % RawDen # 0 /\ acl.v >= 2

\* row x of the returned chain comes before row y, walker by walker and
\* within a walker in the order of the iterations
Before(x, y) ==
    \/ x.walker < y.walker
    \/ x.walker = y.walker /\ x.entry.t < y.entry.t

\* C16: the returned chain holds, of the coldest temperature only, for every
\* walker the samples of the post-burn-in iterations 0, acl, 2 acl, ... below
\* sampler.time, each once, walker by walker: nwalkers * ceil(time / acl)
\* rows.
C16_ReturnsThinnedColdestChain ==
    pc = "DONE" =>
        LET a == acl.v
            rows == ret.rows
            kept == {i \in 0..(time - 1) : i % a = 0}
            cnt == Cardinality(kept)
        IN  /\ cnt * a >= time /\ (cnt - 1) * a < time
            /\ Len(rows) = nw * cnt
            /\ \A r \in 1..Len(rows) :
                /\ rows[r].temp = 1
                /\ rows[r].walker \in 1..nw
                /\ rows[r].entry.phase = "SAMPLING"
                /\ (rows[r].entry.t - 1) \in kept
                /\ rows[r] = ChainAt(1, rows[r].walker, rows[r].entry.t)
                /\ r < Len(rows) => Before(rows[r], rows[r + 1])

C16_Witness ==
    /\ pc = "DONE" /\ nw >= 2 /\ ntemps >= 2 /\ acl.v >= 2 /\ time % acl.v # 0
    /\ Len(ret.rows) > nw

\* iterations of the burn-in done so far
BurninDone == IF pc = "BURNIN" THEN it ELSE IF nburnin >= 0 THEN nburnin ELSE 0

\* iterations done since the reset
SamplingDone == IF InLoop THEN time ELSE 0

\* C17: a step reports a tick exactly when it is a sampler iteration, of the
\* burn-in or of a round, and then one tick; so the ticks reported are the
\* burn-in iterations done plus the iterations done since the reset, and at
\* DONE nburnin + sampler.time (nburnin being a number of iterations, >= 0).
C17_OneTickPerIteration ==
    /\ [][/\ n' \in {n, n + 1}
          /\ (n' = n + 1) <=> (pc \in {"BURNIN", "SAMPLING"} /\ it' = it + 1)
          /\ (n' = n + 1) <=> (time' = time + 1)]_vars
    /\ [](Running => n = BurninDone + SamplingDone)
    /\ []((pc = "DONE" /\ nburnin >= 0) => n = nburnin + time)

C17_Witness ==
    /\ pc = "DONE" /\ nburnin >= 1 /\ nacl >= 2 /\ n = nburnin + time

\* k ticks do not exceed the total x
Within(k, x) == x = PosInf \/ (isfinite(x) /\ k <= x.v)

\* C18: for nindep >= 0 and nburnin >= 0 the ticks reported never exceed the
\* total of the reporter, which is nburnin + 64 * nindep from its creation
\* through the burn-in and from then on the value set before each round.
C18_TicksWithinTotal ==
    (nindep >= 0 /\ nburnin >= 0) =>
        /\ pc # "INIT" => Within(n, total)
        /\ pc = "BURNIN" => total = Fin(nburnin + 64 * nindep)
        /\ pc = "SAMPLING" => Within(n + (nsteps - it), total)

C18_Witness ==
    /\ pc = "CHECKING" /\ nindep >= 0 /\ nburnin >= 1 /\ nacl >= 1
    /\ total = Fin(n)

\* C19: pos is the ensemble the sampler last yielded, and nothing between the
\* phases touches it: the reset starts the first round from the last ensemble
\* of the burn-in, the end of a round and the check leave position and
\* history alone, and a later round starts from the last ensemble of the
\* round before.
C19_PositionThreaded ==
    /\ [](Running => gen = pos)
    /\ [][/\ (pc = "BURNIN" /\ pc' # "BURNIN")
              => (pos' = pos /\ gen' = gen /\ pc' = "SAMPLING")
          /\ (pc = "SAMPLING" /\ pc' # "SAMPLING")
              => (pos' = pos /\ gen' = gen /\ hist' = hist /\ stored' = stored)
          /\ pc = "CHECKING"
              => (pos' = pos /\ gen' = gen /\ hist' = hist /\ stored' = stored)]_vars

C19_Witness ==
    /\ pc = "SAMPLING" /\ it = 0 /\ nacl >= 1 /\ nburnin >= 1
    /\ \E t \in 1..ntemps, w \in 1..nw : pos[t][w] # pos[1][1]

\* what of a run the stopping rule is about
Outcome(u) == [at |-> u.at, nacl |-> u.nacl, acl |-> u.acl, time |-> u.time,
               nsteps |-> u.nsteps]

\* C20: two runs with the same nindep that are given the same estimates, and
\* acceptance fractions and progress bars of their own, are after every check
\* in the same place of the loop, with the same number of rounds, the same acl
\* and the same sampler.time: they stop together.
C20_StopIgnoresAcceptance ==
    pc = "PAIR" => Outcome(runs[1]) = Outcome(runs[2])

C20_Witness ==
    /\ pc = "PAIR"
    /\ runs[1].at = "DONE" /\ runs[2].at = "DONE" /\ runs[1].nacl >= 2
    /\ runs[1].postfix.accept = 0 /\ runs[2].postfix.accept > 0

\* C21 as stated: an EnableAction built from one option string --enable-X
\* registers --enable-X and --disable-X, of the same X, for one destination, whose
\* default is True unless the caller passes another; on a command line the
\* destination holds the default before any occurrence, then True after an
\* occurrence of --enable-X and False after one of --disable-X, so the last
\* occurrence decides; built from a string that does not start with --enable-
\* it raises ValueError (as it does from no string or several).
C21_EnableDisablePair ==
    pc = "ENABLE" =>
        /\ cli.at = "READY" =>
              /\ Len(cli.args) = 1 /\ cli.args[1][1] = "--enable-"
              /\ Len(cli.registered) = 2
              /\ cli.registered[1] = cli.args[1]
              /\ cli.registered[2][1] = "--disable-"
              /\ SubSeq(cli.registered[2], 2, Len(cli.registered[2]))
                     = SubSeq(cli.args[1], 2, Len(cli.args[1]))
              /\ cli.default = <<>> => DefaultOf(cli.default) = TRUE
              /\ cli.last = 0 => cli.value = <<DefaultOf(cli.default)>>
              /\ cli.last = 1 => cli.value = <<TRUE>>
              /\ cli.last = 2 => cli.value = <<FALSE>>
              /\ (cli.last = 0) <=> (cli.seen = 0)
        /\ cli.at = "ValueError" <=>
              (cli.at # "NEW" /\ (Len(cli.args) # 1 \/ cli.args[1][1] # "--enable-"))
        /\ cli.at # "RuntimeError"

\* the patterns on the command line: the arguments of the option
Arguments(values) == IF values.type = "str" THEN <<values.v>> ELSE values.v

\* the files the arguments match, pattern by pattern in argument order
MatchedFiles ==
    Chain([i \in 1..Len(Arguments(cli.values)) |->
              Glob(Arguments(cli.values)[i], cli.dir)])

\* C22 as stated: the destination holds the files matched by each pattern,
\* concatenated in argument order, or its previous value when nothing
\* matched; the number of those files (0 for None) against nargs decides the
\* ArgumentError: more than one for "?", none for "+", another number than an
\* integer nargs, never for "*"; the message reports expected and found.
C22_GlobStoresMatchesAndCounts ==
    (pc = "GLOB" /\ cli.at # "NEW") =>
        LET kept == IF MatchedFiles # <<>> THEN <<MatchedFiles>> ELSE cli.previous
            j == IF kept = <<>> THEN 0 ELSE Len(kept[1])
            wrong == \/ cli.nargs.k = "?" /\ j > 1
                     \/ cli.nargs.k = "+" /\ j < 1
                     \/ cli.nargs.k = "int" /\ cli.nargs.v # j
        IN  /\ cli.dest = kept
            /\ (cli.at = "ArgumentError") <=> wrong
            /\ cli.nargs.k = "*" => cli.at = "STORED"
            /\ cli.at = "ArgumentError" =>
                  /\ Len(cli.msg) = 2
                  /\ cli.msg[2].number = j
                  /\ cli.nargs.k = "int" => cli.msg[1].number = cli.nargs.v

====
